---- MODULE Spec2Model ----
(***************************************************************************)
(* A state-machine model of static/script.js, the chat widget: the session *)
(* manager (startNewSession, the language toggle), the message renderer    *)
(* (appendMessage), the feedback controls (like / dislike / comment) and   *)
(* the submission flow (the chatForm submit handler and its continuations  *)
(* after `await fetch` and `await response.json()`).                       *)
(*                                                                         *)
(* Text is a sequence of strings: a typed text is the sequence of its      *)
(* characters, a fixed text of the program is a one-element sequence.      *)
(* The module is ASCII, so the Arabic literals of the source are written   *)
(* as ASCII stand-ins prefixed "[ar] ".                                    *)
(***************************************************************************)
EXTENDS Naturals, Sequences, FiniteSets

VARIABLES
    currentSessionId,   \* script.js:12, a number standing for the generated token
    currentLanguage,    \* script.js:13
    sessionIdSpan,      \* textContent of #session-id
    chatBox,            \* children of #chat-box, a sequence of message nodes
    userInput,          \* #user-input: [value, disabled, placeholder]
    sendButton,         \* #send-button: [disabled, textContent]
    clientSelector,     \* #client-selector: [value, disabled]
    languageToggle,     \* #language-toggle .checked
    page,               \* documentElement lang/dir and the selector's label
    requests,           \* the suspended submit handlers, one per POST /chat in flight
    alertBox,           \* the texts of the alert() dialogs on screen
    consoleOut,         \* the lines console.log wrote in the latest handler
    last,               \* the latest handler that ran
    prev                \* the like or dislike click just before a like or dislike click

vars == <<currentSessionId, currentLanguage, sessionIdSpan, chatBox, userInput,
          sendButton, clientSelector, languageToggle, page, requests, alertBox,
          consoleOut, last, prev>>

(***************************************************************************)
(* Bounds of the model.                                                    *)
(***************************************************************************)
MaxSessions == 3       \* session ids go up to this
MaxTranscript == 4     \* a submission starts only while it fits in this many entries

\* what the user types: nothing, a space and a line break, a word between a
\* tab and a no-break space
Texts == {<<>>, <<" ", "\n">>, <<"\t", "q", "U+00A0">>}
ClientIds == {"", "C123"}
Answers == {<<"Balance: $500">>}
Statuses == {200, 404, 500}

(***************************************************************************)
(* String.prototype.trim on a sequence of characters.  A character is a     *)
(* one-character string; a code point outside ASCII is written by its name. *)
(***************************************************************************)
\* the WhiteSpace and LineTerminator code points, which trim strips
WhiteSpace ==
    {"\t", "\n", "U+000B", "\f", "\r", " ", "U+00A0", "U+1680",
     "U+2000", "U+2001", "U+2002", "U+2003", "U+2004", "U+2005", "U+2006",
     "U+2007", "U+2008", "U+2009", "U+200A", "U+2028", "U+2029", "U+202F",
     "U+205F", "U+3000", "U+FEFF"}

\* a trim that strips the space character only
IsSpace_spaceOnly(c) == c = " "

IsSpace(c) == c \in WhiteSpace

RECURSIVE TrimStart(_)
TrimStart(s) ==
    IF s = <<>> THEN <<>>
    ELSE IF IsSpace(Head(s)) THEN TrimStart(Tail(s)) ELSE s

RECURSIVE TrimEnd(_)
TrimEnd(s) ==
    IF s = <<>> THEN <<>>
    ELSE IF IsSpace(s[Len(s)]) THEN TrimEnd(SubSeq(s, 1, Len(s) - 1)) ELSE s

\* a trim that leaves the trailing whitespace
trim_startOnly(s) == TrimStart(s)

trim(s) == TrimEnd(TrimStart(s))

(***************************************************************************)
(* The fixed texts of the program.                                         *)
(***************************************************************************)
WelcomeEn == <<"Hello! I'm your Relationship Manager assistant. Please select a client and ask me a question about them.">>
WelcomeAr == <<"[ar] Hello! I'm your Relationship Manager assistant. Please select a client and ask me a question about them.">>
AlertEn == <<"Please select a client first.">>
AlertAr == <<"[ar] Please select a client first.">>
Thinking == <<"Thinking...">>
SorryPrefix == "Sorry, an error occurred: "

\* a welcome message that ignores the language
welcomeMessage_english(lang) == WelcomeEn

welcomeMessage(lang) == IF lang = "en" THEN WelcomeEn ELSE WelcomeAr
alertMessage(lang) == IF lang = "en" THEN AlertEn ELSE AlertAr

\* a number as the template literal renders it: its decimal digits
DecimalDigits == <<"0", "1", "2", "3", "4", "5", "6", "7", "8", "9">>
RECURSIVE StatusText(_)
StatusText(status) ==
    IF status < 10 THEN <<DecimalDigits[status + 1]>>
    ELSE StatusText(status \div 10) \o <<DecimalDigits[(status % 10) + 1]>>
\* `HTTP error! status: ${response.status}`
HttpErrorMessage(status) == <<"HTTP error! status: ">> \o StatusText(status)
\* the messages of the errors fetch, response.json() and data.answer raise
NetworkErrorMessage == <<"Failed to fetch">>
JsonErrorMessage == <<"Unexpected end of JSON input">>
NullDataErrorMessage == <<"Cannot read properties of null (reading 'answer')">>
\* `Sorry, an error occurred: ${error.message}`
errorText(message) == <<SorryPrefix>> \o message

\* a status check that lets every response through
ResponseOk_any(status) == TRUE

\* response.ok
ResponseOk(status) == status >= 200 /\ status <= 299

(***************************************************************************)
(* updateUIText: the language-dependent attributes and labels.             *)
(***************************************************************************)
\* updateUIText that leaves the direction left-to-right
updateUIText_ltr(lang) ==
    IF lang = "en"
    THEN [lang |-> "en", dir |-> "ltr", label |-> "Select Client:",
          placeholder |-> "Ask a question...", send |-> "Send"]
    ELSE [lang |-> "ar", dir |-> "ltr", label |-> "[ar] Select Client:",
          placeholder |-> "[ar] Ask a question...", send |-> "[ar] Send"]

updateUIText(lang) ==
    IF lang = "en"
    THEN [lang |-> "en", dir |-> "ltr", label |-> "Select Client:",
          placeholder |-> "Ask a question...", send |-> "Send"]
    ELSE [lang |-> "ar", dir |-> "rtl", label |-> "[ar] Select Client:",
          placeholder |-> "[ar] Ask a question...", send |-> "[ar] Send"]

(***************************************************************************)
(* toggleFormState: the disabled flag of the three controls.               *)
(***************************************************************************)
\* toggleFormState that never enables again
toggleFormState_stuck(isLoading) ==
    [userInput |-> TRUE, sendButton |-> TRUE, clientSelector |-> TRUE]

\* toggleFormState that disables nothing
toggleFormState_neverDisables(isLoading) ==
    [userInput |-> FALSE, sendButton |-> FALSE, clientSelector |-> FALSE]

\* toggleFormState that forgets the client selector
toggleFormState_skipsSelector(isLoading) ==
    [userInput |-> isLoading, sendButton |-> isLoading, clientSelector |-> FALSE]

toggleFormState(isLoading) ==
    [userInput |-> isLoading, sendButton |-> isLoading, clientSelector |-> isLoading]

(***************************************************************************)
(* DOM nodes. A node has an identity: a removed node stays referenced by   *)
(* the handler that holds it. The identity of a new node is the least one  *)
(* not in the transcript and not held by a suspended handler.              *)
(***************************************************************************)
NodeIds(box) == {box[i].id : i \in 1..Len(box)}
HeldIds(reqs) == {r.thinking : r \in reqs}
NewNodeId(box, reqs) ==
    CHOOSE n \in 1..(Len(box) + Cardinality(reqs) + 1) :
        /\ n \notin NodeIds(box) \cup HeldIds(reqs)
        /\ \A k \in 1..(n - 1) : k \in NodeIds(box) \cup HeldIds(reqs)

\* appendMessage(text, className, addFeedback): the new last child of #chat-box
appendMessage(box, reqs, text, className, addFeedback) ==
    Append(box, [id |-> NewNodeId(box, reqs), text |-> text, className |-> className,
                 feedback |-> addFeedback, like |-> FALSE, dislike |-> FALSE,
                 comment |-> FALSE, boxes |-> <<>>])

\* a remove() that leaves the node in place
removeNode_keeps(box, id) == box

\* node.remove(): the transcript without the node; nothing when it is not a child
RECURSIVE removeNode(_, _)
removeNode(box, id) ==
    IF box = <<>> THEN <<>>
    ELSE IF Head(box).id = id THEN removeNode(Tail(box), id)
    ELSE <<Head(box)>> \o removeNode(Tail(box), id)

(***************************************************************************)
(* The feedback controls of one message node (appendMessage, lines         *)
(* 104-142) and the comment box (createCommentBox).                        *)
(***************************************************************************)
\* likeBtn click that leaves dislike as it is
likeClick_keepsDislike(msg) == [msg EXCEPT !.like = ~msg.like]

\* dislikeBtn click that adds the class instead of toggling it
dislikeClick_adds(msg) == [msg EXCEPT !.dislike = TRUE, !.like = FALSE]

\* likeBtn click: toggle like, remove dislike
likeClick(msg) == [msg EXCEPT !.like = ~msg.like, !.dislike = FALSE]

\* dislikeBtn click: toggle dislike, remove like
dislikeClick(msg) == [msg EXCEPT !.dislike = ~msg.dislike, !.like = FALSE]

\* a new comment box: an empty textarea and the Submit button
createCommentBox == [content |-> "form", textarea |-> <<>>]

\* commentBtn click that leaves the button selected when it closes the box
commentClick_staysSelected(msg) ==
    IF msg.boxes # <<>>
    THEN [msg EXCEPT !.boxes = Tail(msg.boxes)]
    ELSE [msg EXCEPT !.comment = TRUE, !.boxes = Append(msg.boxes, createCommentBox)]

\* commentBtn click that looks for a box with a textarea, not for .comment-box
commentClick_findsTextarea(msg) ==
    IF msg.boxes # <<>> /\ msg.boxes[1].content = "form"
    THEN [msg EXCEPT !.boxes = Tail(msg.boxes), !.comment = FALSE]
    ELSE [msg EXCEPT !.comment = TRUE, !.boxes = Append(msg.boxes, createCommentBox)]

\* commentBtn click: remove the box the feedback area holds, or add a new one
commentClick(msg) ==
    IF msg.boxes # <<>>
    THEN [msg EXCEPT !.boxes = Tail(msg.boxes), !.comment = FALSE]
    ELSE [msg EXCEPT !.comment = TRUE, !.boxes = Append(msg.boxes, createCommentBox)]

\* submitBtn click: what console.log writes, and the box afterwards
commentLog(box) ==
    IF trim(box.textarea) # <<>>
    THEN <<[text |-> "Feedback Comment Submitted: ", sid |-> 0, arg |-> trim(box.textarea)]>>
    ELSE <<>>

\* submitBtn click that tests the text without trimming it
commentSubmit_untrimmed(box) ==
    IF box.textarea # <<>>
    THEN [content |-> "thanks", textarea |-> <<>>]
    ELSE box

commentSubmit(box) ==
    IF trim(box.textarea) # <<>>
    THEN [content |-> "thanks", textarea |-> <<>>]
    ELSE box

(***************************************************************************)
(* startNewSession.                                                        *)
(***************************************************************************)
\* the token of line 30 is new on every call: the next unused number
NewSessionId(sid) == sid + 1

\* chatBox.innerHTML = '' and then the welcome message
NewTranscript(lang, reqs) ==
    appendMessage(<<>>, reqs, welcomeMessage(lang), "bot-message", FALSE)

LogLine(text, sid) == [text |-> text, sid |-> sid, arg |-> <<>>]

startNewSession(lang) ==
    /\ currentSessionId' = NewSessionId(currentSessionId)
    /\ sessionIdSpan' = NewSessionId(currentSessionId)
    /\ chatBox' = NewTranscript(lang, requests)

(***************************************************************************)
(* The state after the DOMContentLoaded callback has run: lines 186-187.   *)
(***************************************************************************)
\* A handler that ran: which one, the node whose control was clicked with its
\* like and dislike flags before the click, the status of the response it got,
\* the answer of the body it got.
Event(op) ==
    [op |-> op, m |-> 0, like |-> FALSE, dislike |-> FALSE, status |-> 0, text |-> <<>>]
ClickEvent(op, msg) ==
    [op |-> op, m |-> msg.id, like |-> msg.like, dislike |-> msg.dislike,
     status |-> 0, text |-> <<>>]
ResponseEvent(op, status, text) ==
    [op |-> op, m |-> 0, like |-> FALSE, dislike |-> FALSE, status |-> status,
     text |-> text]

Init ==
    /\ currentLanguage = "en"
    /\ currentSessionId = NewSessionId(0)
    /\ sessionIdSpan = NewSessionId(0)
    /\ chatBox = NewTranscript("en", {})
    /\ userInput = [value |-> <<>>, disabled |-> FALSE,
                    placeholder |-> updateUIText("en").placeholder]
    /\ sendButton = [disabled |-> FALSE, textContent |-> updateUIText("en").send]
    /\ clientSelector = [value |-> "", disabled |-> FALSE]
    /\ languageToggle = FALSE
    /\ page = [lang |-> updateUIText("en").lang, dir |-> updateUIText("en").dir,
               label |-> updateUIText("en").label]
    /\ requests = {}
    /\ alertBox = <<>>
    /\ consoleOut = <<LogLine("New session started:", NewSessionId(0))>>
    /\ last = Event("load")
    /\ prev = Event("other")

\* prev keeps the handler before only when both are clicks on like or dislike
\* of the same node
Record(ev) ==
    /\ last' = ev
    /\ prev' = IF /\ last.op \in {"like", "dislike"}
                  /\ ev.op \in {"like", "dislike"}
                  /\ ev.m = last.m
               THEN last ELSE Event("other")

\* alert() is modal: no handler runs while it is on screen
Running == alertBox = <<>>

(***************************************************************************)
(* The reset control and the language toggle.                              *)
(***************************************************************************)
RefreshClick ==
    /\ Running
    /\ currentSessionId < MaxSessions
    /\ startNewSession(currentLanguage)
    /\ consoleOut' = <<LogLine("New session started:", NewSessionId(currentSessionId))>>
    /\ Record(Event("refresh"))
    /\ UNCHANGED <<currentLanguage, userInput, sendButton, clientSelector,
                   languageToggle, page, requests, alertBox>>

\* currentLanguage = languageToggle.checked ? 'ar' : 'en'
ToggleLanguage(checked) == IF checked THEN "ar" ELSE "en"

LanguageChange ==
    /\ Running
    /\ currentSessionId < MaxSessions
    /\ languageToggle' = ~languageToggle
    /\ LET lang == ToggleLanguage(~languageToggle)
           ui == updateUIText(lang)
       IN /\ currentLanguage' = lang
          /\ page' = [lang |-> ui.lang, dir |-> ui.dir, label |-> ui.label]
          /\ userInput' = [userInput EXCEPT !.placeholder = ui.placeholder]
          /\ sendButton' = [sendButton EXCEPT !.textContent = ui.send]
          /\ startNewSession(lang)
          /\ consoleOut' = <<LogLine("Language changed to: ", 0),
                             LogLine("New session started:", NewSessionId(currentSessionId))>>
    /\ Record(Event("language"))
    /\ UNCHANGED <<clientSelector, requests, alertBox>>

(***************************************************************************)
(* The user edits the query field or picks a client.                       *)
(***************************************************************************)
TypeInput(v) ==
    /\ Running
    /\ ~userInput.disabled
    /\ v # userInput.value
    /\ userInput' = [userInput EXCEPT !.value = v]
    /\ consoleOut' = <<>>
    /\ Record(Event("type"))
    /\ UNCHANGED <<currentSessionId, currentLanguage, sessionIdSpan, chatBox, sendButton,
                   clientSelector, languageToggle, page, requests, alertBox>>

SelectClient(c) ==
    /\ Running
    /\ ~clientSelector.disabled
    /\ c # clientSelector.value
    /\ clientSelector' = [clientSelector EXCEPT !.value = c]
    /\ consoleOut' = <<>>
    /\ Record(Event("select"))
    /\ UNCHANGED <<currentSessionId, currentLanguage, sessionIdSpan, chatBox, userInput,
                   sendButton, languageToggle, page, requests, alertBox>>

DismissAlert ==
    /\ alertBox # <<>>
    /\ alertBox' = Tail(alertBox)
    /\ consoleOut' = <<>>
    /\ Record(Event("dismiss"))
    /\ UNCHANGED <<currentSessionId, currentLanguage, sessionIdSpan, chatBox, userInput,
                   sendButton, clientSelector, languageToggle, page, requests>>

(***************************************************************************)
(* The chatForm submit handler, up to its first await (lines 51-79). The   *)
(* form is submitted through the send button, so only while it is enabled. *)
(***************************************************************************)
\* a client check that never fails
NoClient_never(clientId) == FALSE

\* !query and !clientId
EmptyQuery(query) == query = <<>>
NoClient(clientId) == clientId = ""

NewRequest(query, clientId, thinking) ==
    [query |-> query, session_id |-> currentSessionId, client_id |-> clientId,
     language |-> currentLanguage, thinking |-> thinking, stage |-> "fetch"]

ChatFormSubmit ==
    /\ Running
    /\ ~sendButton.disabled
    /\ LET query == trim(userInput.value)
           clientId == clientSelector.value
           withUser == appendMessage(chatBox, requests, query, "user-message", FALSE)
           withThinking == appendMessage(withUser, requests, Thinking,
                                         "bot-message thinking", FALSE)
           loading == toggleFormState(TRUE)
       IN IF EmptyQuery(query)
          THEN /\ UNCHANGED <<chatBox, userInput, sendButton, clientSelector,
                              requests, alertBox>>
          ELSE IF NoClient(clientId)
          THEN /\ alertBox' = Append(alertBox, alertMessage(currentLanguage))
               /\ UNCHANGED <<chatBox, userInput, sendButton, clientSelector, requests>>
          ELSE /\ Len(chatBox) + 2 <= MaxTranscript
               /\ chatBox' = withThinking
               /\ userInput' = [userInput EXCEPT !.value = <<>>,
                                                 !.disabled = loading.userInput]
               /\ sendButton' = [sendButton EXCEPT !.disabled = loading.sendButton]
               /\ clientSelector' = [clientSelector EXCEPT
                                        !.disabled = loading.clientSelector]
               /\ requests' = requests \cup
                     {NewRequest(query, clientId, withThinking[Len(withThinking)].id)}
               /\ UNCHANGED alertBox
    /\ Record(Event("submit"))
    /\ consoleOut' = <<>>
    /\ UNCHANGED <<currentSessionId, currentLanguage, sessionIdSpan, languageToggle, page>>

(***************************************************************************)
(* The continuations of the submit handler (lines 82-93).                  *)
(***************************************************************************)
\* a catch that sends the request again
Failed_retries(r, message, ev) ==
    LET idle == toggleFormState(FALSE)
    IN /\ chatBox' = appendMessage(removeNode(chatBox, r.thinking), requests,
                                   errorText(message), "bot-message", FALSE)
       /\ userInput' = [userInput EXCEPT !.disabled = idle.userInput]
       /\ sendButton' = [sendButton EXCEPT !.disabled = idle.sendButton]
       /\ clientSelector' = [clientSelector EXCEPT !.disabled = idle.clientSelector]
       /\ requests' = (requests \ {r}) \cup {[r EXCEPT !.stage = "fetch"]}
       /\ Record(ev)

\* catch: remove the placeholder, append the error message; finally: enable
Failed(r, message, ev) ==
    LET idle == toggleFormState(FALSE)
    IN /\ chatBox' = appendMessage(removeNode(chatBox, r.thinking), requests,
                                   errorText(message), "bot-message", FALSE)
       /\ userInput' = [userInput EXCEPT !.disabled = idle.userInput]
       /\ sendButton' = [sendButton EXCEPT !.disabled = idle.sendButton]
       /\ clientSelector' = [clientSelector EXCEPT !.disabled = idle.clientSelector]
       /\ requests' = requests \ {r}
       /\ Record(ev)

\* lines 85-86 and finally
Answered(r, answer) ==
    LET idle == toggleFormState(FALSE)
    IN /\ chatBox' = appendMessage(removeNode(chatBox, r.thinking), requests,
                                   answer, "bot-message", TRUE)
       /\ userInput' = [userInput EXCEPT !.disabled = idle.userInput]
       /\ sendButton' = [sendButton EXCEPT !.disabled = idle.sendButton]
       /\ clientSelector' = [clientSelector EXCEPT !.disabled = idle.clientSelector]
       /\ requests' = requests \ {r}
       /\ Record(ResponseEvent("jsonResolves", 0, answer))

Settled == /\ consoleOut' = <<>>
           /\ UNCHANGED <<currentSessionId, currentLanguage, sessionIdSpan,
                          languageToggle, page, alertBox>>

\* fetch rejects: a network-level failure
FetchRejects(r) ==
    /\ Running
    /\ r.stage = "fetch"
    /\ Failed(r, NetworkErrorMessage, Event("fetchRejects"))
    /\ Settled

\* fetch resolves with a response of the given status
FetchResolves(r, status) ==
    /\ Running
    /\ r.stage = "fetch"
    /\ IF ~ResponseOk(status)
       THEN Failed(r, HttpErrorMessage(status), ResponseEvent("fetchResolves", status, <<>>))
       ELSE /\ requests' = (requests \ {r}) \cup {[r EXCEPT !.stage = "json"]}
            /\ Record(ResponseEvent("fetchResolves", status, <<>>))
            /\ UNCHANGED <<chatBox, userInput, sendButton, clientSelector>>
    /\ Settled

\* response.json() rejects: the body is not JSON, or reading it failed
JsonRejects(r) ==
    /\ Running
    /\ r.stage = "json"
    /\ Failed(r, JsonErrorMessage, Event("jsonRejects"))
    /\ Settled

\* response.json() resolves: with an object that has an answer, or with null,
\* where line 85 has removed the placeholder before data.answer throws
Bodies == {[null |-> FALSE, answer |-> a] : a \in Answers}
              \cup {[null |-> TRUE, answer |-> <<>>]}

JsonResolves(r, data) ==
    /\ Running
    /\ r.stage = "json"
    /\ IF data.null
       THEN Failed(r, NullDataErrorMessage, Event("jsonResolvesNull"))
       ELSE Answered(r, data.answer)
    /\ Settled

Settle ==
    \E r \in requests :
        \/ FetchRejects(r)
        \/ \E status \in Statuses : FetchResolves(r, status)
        \/ JsonRejects(r)
        \/ \E data \in Bodies : JsonResolves(r, data)

(***************************************************************************)
(* Clicks on the feedback controls of the message at position i.           *)
(***************************************************************************)
HasFeedback(i) == i \in 1..Len(chatBox) /\ chatBox[i].feedback

\* handlers that find the buttons of every message, not those of their own
Feedback_everyMessage(i, msg, ev, out) ==
    /\ chatBox' = [j \in 1..Len(chatBox) |->
                      IF j = i THEN msg
                      ELSE IF chatBox[j].feedback
                      THEN [chatBox[j] EXCEPT !.like = msg.like, !.dislike = msg.dislike]
                      ELSE chatBox[j]]
    /\ consoleOut' = out
    /\ Record(ev)
    /\ UNCHANGED <<currentSessionId, currentLanguage, sessionIdSpan, userInput, sendButton,
                   clientSelector, languageToggle, page, requests, alertBox>>

Feedback(i, msg, ev, out) ==
    /\ chatBox' = [chatBox EXCEPT ![i] = msg]
    /\ consoleOut' = out
    /\ Record(ev)
    /\ UNCHANGED <<currentSessionId, currentLanguage, sessionIdSpan, userInput, sendButton,
                   clientSelector, languageToggle, page, requests, alertBox>>

LikeClick(i) ==
    /\ Running /\ HasFeedback(i)
    /\ Feedback(i, likeClick(chatBox[i]), ClickEvent("like", chatBox[i]),
                <<LogLine("Feedback: Liked", 0)>>)

DislikeClick(i) ==
    /\ Running /\ HasFeedback(i)
    /\ Feedback(i, dislikeClick(chatBox[i]), ClickEvent("dislike", chatBox[i]),
                <<LogLine("Feedback: Disliked", 0)>>)

CommentClick(i) ==
    /\ Running /\ HasFeedback(i)
    /\ Feedback(i, commentClick(chatBox[i]), ClickEvent("comment", chatBox[i]), <<>>)

\* the user edits the textarea of the first comment box
TypeComment(i, v) ==
    /\ Running /\ HasFeedback(i)
    /\ chatBox[i].boxes # <<>>
    /\ chatBox[i].boxes[1].content = "form"
    /\ v # chatBox[i].boxes[1].textarea
    /\ Feedback(i, [chatBox[i] EXCEPT !.boxes[1].textarea = v],
                ClickEvent("typeComment", chatBox[i]), <<>>)

\* submitBtn click in the first comment box
CommentSubmitClick(i) ==
    /\ Running /\ HasFeedback(i)
    /\ chatBox[i].boxes # <<>>
    /\ chatBox[i].boxes[1].content = "form"
    /\ Feedback(i, [chatBox[i] EXCEPT !.boxes[1] = commentSubmit(chatBox[i].boxes[1])],
                ClickEvent("commentSubmit", chatBox[i]),
                commentLog(chatBox[i].boxes[1]))

Next ==
    \/ RefreshClick
    \/ LanguageChange
    \/ \E v \in Texts : TypeInput(v)
    \/ \E c \in ClientIds : SelectClient(c)
    \/ ChatFormSubmit
    \/ DismissAlert
    \/ \E r \in requests : FetchRejects(r)
    \/ \E r \in requests : \E status \in Statuses : FetchResolves(r, status)
    \/ \E r \in requests : JsonRejects(r)
    \/ \E r \in requests : \E data \in Bodies : JsonResolves(r, data)
    \/ \E i \in 1..MaxTranscript :
          \/ LikeClick(i)
          \/ DislikeClick(i)
          \/ CommentClick(i)
          \/ \E v \in Texts : TypeComment(i, v)
          \/ CommentSubmitClick(i)

Spec == Init /\ [][Next]_vars

\* every request settles: the continuation of a settled promise is run
LiveSpec == Spec /\ WF_vars(Settle)

(***************************************************************************)
(* Properties.                                                             *)
(***************************************************************************)
Last(box) == box[Len(box)]
\* the node a click event names, as it is in the transcript now
Clicked(ev) == {chatBox[i] : i \in {j \in 1..Len(chatBox) : chatBox[j].id = ev.m}}
AllEnabled == ~userInput.disabled /\ ~sendButton.disabled /\ ~clientSelector.disabled
AllDisabled == userInput.disabled /\ sendButton.disabled /\ clientSelector.disabled

\* C1: in every reachable state no message with feedback controls has both
\* like and dislike selected.
C1_AtMostOneSentiment ==
    \A i \in 1..Len(chatBox) :
        chatBox[i].feedback => ~(chatBox[i].like /\ chatBox[i].dislike)

\* a dislike click on a message whose like was selected has left exactly dislike
C1_Witness ==
    /\ last.op = "dislike" /\ last.like
    /\ \E msg \in Clicked(last) : msg.dislike /\ ~msg.like

\* C2 as stated: a click on like or dislike flips that control and leaves the
\* other unselected; like then dislike leaves exactly dislike; dislike then
\* dislike leaves neither, from any prior feedback state.
C2_DislikeTwiceLeavesNeither ==
    \A msg \in Clicked(last) :
        /\ last.op = "like" => (msg.like # last.like) /\ ~msg.dislike
        /\ last.op = "dislike" => (msg.dislike # last.dislike) /\ ~msg.like
        /\ (prev.op = "like" /\ prev.m = last.m /\ last.op = "dislike")
              => msg.dislike /\ ~msg.like
        /\ (prev.op = "dislike" /\ prev.m = last.m /\ last.op = "dislike")
              => ~msg.dislike /\ ~msg.like

\* C2 amended: a click on like or dislike flips that control and leaves the
\* other unselected; like then dislike leaves exactly dislike; dislike then
\* dislike leaves like unselected and dislike as it was before the two clicks,
\* so neither is selected when dislike was not selected before them.
C2_SentimentClicks ==
    \A msg \in Clicked(last) :
        /\ last.op = "like" => (msg.like # last.like) /\ ~msg.dislike
        /\ last.op = "dislike" => (msg.dislike # last.dislike) /\ ~msg.like
        /\ (prev.op = "like" /\ prev.m = last.m /\ last.op = "dislike")
              => msg.dislike /\ ~msg.like
        /\ (prev.op = "dislike" /\ prev.m = last.m /\ last.op = "dislike")
              => /\ ~msg.like
                 /\ msg.dislike = prev.dislike
                 /\ (~prev.dislike) => (~msg.dislike /\ ~msg.like)

\* dislike clicked twice on a message whose dislike was not selected
C2_Witness ==
    /\ prev.op = "dislike" /\ last.op = "dislike" /\ prev.m = last.m
    /\ ~prev.dislike /\ prev.like
    /\ \E msg \in Clicked(last) : ~msg.dislike /\ ~msg.like

\* C3: whenever a submission is awaiting its response, the flow later is idle
\* again with the input field, the submit control and the client selector
\* enabled, whatever the outcome of the request.
C3_ReturnsToIdle == (requests # {}) ~> (requests = {} /\ AllEnabled)

\* reading the response body failed and the flow is idle, the controls enabled
C3_Witness ==
    /\ last.op = "jsonRejects"
    /\ requests = {}
    /\ AllEnabled

\* C4: at most one POST /chat is outstanding, and exactly one while the
\* controls are disabled for a submission.
C4_OneRequest ==
    /\ Cardinality(requests) <= 1
    /\ sendButton.disabled => Cardinality(requests) = 1

\* the reset control was served while the one request of an earlier session is
\* outstanding and the controls are disabled
C4_Witness ==
    /\ last.op = "refresh"
    /\ AllDisabled
    /\ Cardinality(requests) = 1
    /\ \E r \in requests : r.session_id # currentSessionId

\* the typed text has a character that is not whitespace
HasWord(v) == \E k \in 1..Len(v) : v[k] \notin WhiteSpace
\* the transcript without the node
Without(box, id) == SelectSeq(box, LAMBDA n : n.id # id)
\* the request whose handler ran to its end in this step
Finished(r) == r \in requests /\ r \notin requests' /\ \A q \in requests' : q.thinking # r.thinking

\* C5: a submission with a query and no client selected issues no request,
\* leaves the transcript as it is, raises the alert in the current language,
\* and leaves the flow idle, the three controls enabled and the session id
\* unchanged.
C5_NoClientNoRequest ==
    [][(last'.op = "submit" /\ HasWord(userInput.value) /\ clientSelector.value = "")
        => /\ requests = {} /\ requests' = {}
           /\ chatBox' = chatBox
           /\ alertBox' = <<IF currentLanguage = "en" THEN AlertEn ELSE AlertAr>>
           /\ AllEnabled'
           /\ currentSessionId' = currentSessionId
           /\ sessionIdSpan' = sessionIdSpan]_vars

\* the Arabic alert is on screen after a submission without a client
C5_Witness ==
    /\ last.op = "submit"
    /\ alertBox = <<AlertAr>>
    /\ clientSelector.value = "" /\ HasWord(userInput.value)
    /\ requests = {}

\* C6: an accepted submission disables the three controls and adds the user's
\* query and then the placeholder to the transcript, with its request sent;
\* when the body arrives with an answer and no reset happened in between, the
\* placeholder is gone and the answer is the last entry, a bot message with
\* feedback controls, right after the user's message.
C6_SubmitThenAnswer ==
    [][/\ (last'.op = "submit" /\ HasWord(userInput.value) /\ clientSelector.value # "")
          => /\ AllDisabled'
             /\ Len(chatBox') = Len(chatBox) + 2
             /\ SubSeq(chatBox', 1, Len(chatBox)) = chatBox
             /\ chatBox'[Len(chatBox) + 1].className = "user-message"
             /\ chatBox'[Len(chatBox) + 1].text = trim(userInput.value)
             /\ ~chatBox'[Len(chatBox) + 1].feedback
             /\ chatBox'[Len(chatBox) + 2].className = "bot-message thinking"
             /\ chatBox'[Len(chatBox) + 2].text = Thinking
             /\ \E r \in requests' :
                    /\ r.thinking = chatBox'[Len(chatBox) + 2].id
                    /\ r.query = trim(userInput.value)
       /\ (last'.op = "jsonResolves")
          => \A r \in requests :
                (Finished(r) /\ r.session_id = currentSessionId)
                => /\ \A i \in 1..Len(chatBox') :
                          chatBox'[i].className # "bot-message thinking"
                   /\ Len(chatBox') = Len(chatBox)
                   /\ SubSeq(chatBox', 1, Len(chatBox) - 1)
                         = SubSeq(chatBox, 1, Len(chatBox) - 1)
                   /\ chatBox'[Len(chatBox) - 1].className = "user-message"
                   /\ chatBox'[Len(chatBox) - 1].text = r.query
                   /\ Last(chatBox').className = "bot-message"
                   /\ Last(chatBox').text = last'.text
                   /\ Last(chatBox').text \in Answers
                   /\ Last(chatBox').feedback]_vars

\* the answer with its feedback controls follows the user's message, no
\* placeholder is left
C6_Witness ==
    /\ last.op = "jsonResolves"
    /\ Len(chatBox) = 3
    /\ chatBox[2].className = "user-message"
    /\ chatBox[3].feedback /\ chatBox[3].text \in Answers
    /\ AllEnabled

\* the step in which a request failed
FailedStep ==
    \/ last'.op \in {"fetchRejects", "jsonRejects", "jsonResolvesNull"}
    \/ last'.op = "fetchResolves" /\ (last'.status < 200 \/ last'.status > 299)

\* C7: when the request fails, the placeholder is removed, one error message
\* without feedback controls is appended and nothing else, and the three
\* controls are enabled again.
C7_FailureRendersError ==
    [][FailedStep
        => \E r \in requests :
              /\ requests' = requests \ {r}
              /\ Len(chatBox') = Len(Without(chatBox, r.thinking)) + 1
              /\ SubSeq(chatBox', 1, Len(chatBox') - 1) = Without(chatBox, r.thinking)
              /\ Head(Last(chatBox').text) = SorryPrefix
              /\ Last(chatBox').className = "bot-message"
              /\ ~Last(chatBox').feedback
              /\ AllEnabled']_vars

\* a response with a non-success status left the error message after the
\* user's message
C7_Witness ==
    /\ last.op = "fetchResolves" /\ last.status = 404
    /\ Len(chatBox) = 3
    /\ chatBox[2].className = "user-message"
    /\ Last(chatBox).text = <<SorryPrefix, "HTTP error! status: ", "4", "0", "4">>
    /\ ~Last(chatBox).feedback
    /\ AllEnabled /\ requests = {}

\* C8: the error message rendered after a failed request is in the current
\* language: the English text under "en", another text under "ar".
C8_ErrorLocalized ==
    (last.op \in {"fetchRejects", "jsonRejects", "jsonResolvesNull"}
        \/ (last.op = "fetchResolves" /\ (last.status < 200 \/ last.status > 299)))
    => /\ currentLanguage = "en" => Head(Last(chatBox).text) = SorryPrefix
       /\ currentLanguage = "ar" => Head(Last(chatBox).text) # SorryPrefix

\* C9: right after startNewSession the transcript is the one welcome message
\* in the current language, without feedback controls, the session-id display
\* shows the new session id, and the call changes the disabled flag of none of
\* the three controls.
C9_NewSession ==
    /\ [](last.op \in {"load", "refresh", "language"}
           => /\ Len(chatBox) = 1
              /\ chatBox[1].text = (IF currentLanguage = "en" THEN WelcomeEn ELSE WelcomeAr)
              /\ chatBox[1].className = "bot-message"
              /\ ~chatBox[1].feedback
              /\ sessionIdSpan = currentSessionId)
    /\ [][last'.op \in {"refresh", "language"}
           => /\ currentSessionId' # currentSessionId
              /\ userInput'.disabled = userInput.disabled
              /\ sendButton'.disabled = sendButton.disabled
              /\ clientSelector'.disabled = clientSelector.disabled]_vars

\* a reset while a request is outstanding: the Arabic welcome alone, the
\* controls still disabled
C9_Witness ==
    /\ last.op = "refresh"
    /\ chatBox[1].text = WelcomeAr /\ Len(chatBox) = 1
    /\ AllDisabled /\ requests # {}

\* C10: a change of the language toggle sets the current language to the
\* toggle's value and replaces the transcript by the welcome message in that
\* language; the document's language and direction and the static labels
\* match the current language in every state.
C10_LanguageToggle ==
    /\ [](/\ currentLanguage = "en"
             => /\ page = [lang |-> "en", dir |-> "ltr", label |-> "Select Client:"]
                /\ userInput.placeholder = "Ask a question..."
                /\ sendButton.textContent = "Send"
          /\ currentLanguage = "ar"
             => /\ page = [lang |-> "ar", dir |-> "rtl", label |-> "[ar] Select Client:"]
                /\ userInput.placeholder = "[ar] Ask a question..."
                /\ sendButton.textContent = "[ar] Send")
    /\ [][last'.op = "language"
           => /\ currentLanguage' = (IF languageToggle' THEN "ar" ELSE "en")
              /\ languageToggle' # languageToggle
              /\ Len(chatBox') = 1
              /\ chatBox'[1].text = (IF languageToggle' THEN WelcomeAr ELSE WelcomeEn)
              /\ ~chatBox'[1].feedback
              /\ currentSessionId' # currentSessionId
              /\ page'.dir = (IF languageToggle' THEN "rtl" ELSE "ltr")]_vars

\* the toggle was switched to Arabic while a request was outstanding
C10_Witness ==
    /\ last.op = "language"
    /\ languageToggle /\ currentLanguage = "ar"
    /\ page.dir = "rtl"
    /\ Len(chatBox) = 1 /\ chatBox[1].text = WelcomeAr
    /\ requests # {}

\* the positions of the node an event names
At(ev) == {j \in 1..Len(chatBox) : chatBox[j].id = ev.m}
\* a text without its leading and trailing whitespace
Trimmed(v) ==
    LET words == {k \in 1..Len(v) : v[k] \notin WhiteSpace}
    IN IF words = {} THEN <<>>
       ELSE SubSeq(v, CHOOSE a \in words : \A k \in words : a <= k,
                      CHOOSE b \in words : \A k \in words : b >= k)

\* C11: a click on the comment control of a message without a comment box
\* adds one empty box and selects the control; a click when a box is there
\* removes it, whatever it holds, leaves no box and unselects the control; like
\* and dislike keep their state in both.
C11_CommentToggle ==
    [][last'.op = "comment"
        => /\ At(last') # {}
           /\ Len(chatBox') = Len(chatBox)
           /\ \A i \in At(last') :
                /\ chatBox[i].feedback
                /\ chatBox[i].boxes = <<>>
                   => /\ chatBox'[i].boxes = <<[content |-> "form", textarea |-> <<>>]>>
                      /\ chatBox'[i].comment
                /\ chatBox[i].boxes # <<>>
                   => /\ chatBox'[i].boxes = <<>>
                      /\ ~chatBox'[i].comment
                /\ chatBox'[i].like = chatBox[i].like
                /\ chatBox'[i].dislike = chatBox[i].dislike]_vars

\* the comment control of a liked message was clicked and no box is left
C11_Witness ==
    /\ last.op = "comment"
    /\ \E msg \in Clicked(last) : msg.boxes = <<>> /\ ~msg.comment /\ msg.like

\* C12: in every reachable state a message has at most one comment box.
C12_AtMostOneBox ==
    \A i \in 1..Len(chatBox) : Len(chatBox[i].boxes) <= 1

\* a comment was acknowledged in the one box of the message
C12_Witness ==
    /\ last.op = "commentSubmit"
    /\ \E msg \in Clicked(last) :
          Len(msg.boxes) = 1 /\ msg.boxes[1].content = "thanks" /\ msg.comment

\* C13: a comment submitted with no text or only whitespace changes nothing in
\* the transcript and logs nothing; one submitted with other text turns the box
\* into the acknowledgment and logs the trimmed text once; only a box that still
\* has its textarea and button takes a submission.
C13_CommentSubmit ==
    [][last'.op = "commentSubmit"
        => /\ At(last') # {}
           /\ \A i \in At(last') :
                /\ Len(chatBox[i].boxes) = 1
                /\ chatBox[i].boxes[1].content = "form"
                /\ ~HasWord(chatBox[i].boxes[1].textarea)
                   => chatBox' = chatBox /\ consoleOut' = <<>>
                /\ HasWord(chatBox[i].boxes[1].textarea)
                   => /\ chatBox'[i].boxes = <<[content |-> "thanks", textarea |-> <<>>]>>
                      /\ Len(consoleOut') = 1
                      /\ consoleOut'[1].text = "Feedback Comment Submitted: "
                      /\ consoleOut'[1].arg = Trimmed(chatBox[i].boxes[1].textarea)
                      /\ chatBox'[i].comment = chatBox[i].comment]_vars

\* a comment was acknowledged and its trimmed text logged
C13_Witness ==
    /\ last.op = "commentSubmit"
    /\ consoleOut = <<[text |-> "Feedback Comment Submitted: ", sid |-> 0, arg |-> <<"q">>]>>
    /\ \E msg \in Clicked(last) : msg.boxes[1].content = "thanks"

\* the requests sent in this step
Issued == {r \in requests' : r.stage = "fetch" /\ r \notin requests}

\* C14: a request is sent only by a form submission, one per accepted
\* submission; a failed request is not sent again and ends with its request
\* gone, the session id and the language as they were, the controls enabled and
\* no alert, so that a later submission is taken like any other.
C14_SingleAttempt ==
    [][/\ Issued # {} => last'.op = "submit" /\ Cardinality(Issued) = 1
       /\ (last'.op = "submit" /\ HasWord(userInput.value) /\ clientSelector.value # "")
          => /\ Cardinality(Issued) = 1
             /\ requests \subseteq requests'
       /\ FailedStep
          => /\ \E r \in requests : requests' = requests \ {r}
             /\ currentSessionId' = currentSessionId
             /\ currentLanguage' = currentLanguage
             /\ AllEnabled'
             /\ alertBox' = <<>>]_vars

\* a submission was accepted in a session whose transcript shows the error of
\* an earlier request
C14_Witness ==
    /\ last.op = "submit"
    /\ \E r \in requests : r.session_id = currentSessionId /\ r.stage = "fetch"
    /\ \E i \in 1..Len(chatBox) : Head(chatBox[i].text) = SorryPrefix
    /\ Cardinality(requests) = 1

\* C15: a click on like, dislike, the comment control or a comment's submit
\* button sends no request and leaves the session id, its display, the
\* language, the requests outstanding, the disabled flags, the messages of the
\* transcript and the feedback state of every other message as they were; after
\* a reset or a language change no message of the transcript has feedback state.
C15_FeedbackLocal ==
    [][/\ last'.op \in {"like", "dislike", "comment", "commentSubmit"}
          => /\ requests' = requests
             /\ currentSessionId' = currentSessionId
             /\ sessionIdSpan' = sessionIdSpan
             /\ currentLanguage' = currentLanguage
             /\ userInput' = userInput
             /\ sendButton' = sendButton
             /\ clientSelector' = clientSelector
             /\ Len(chatBox') = Len(chatBox)
             /\ \A i \in 1..Len(chatBox) :
                   /\ chatBox'[i].id = chatBox[i].id
                   /\ chatBox'[i].text = chatBox[i].text
                   /\ chatBox'[i].className = chatBox[i].className
                   /\ chatBox'[i].feedback = chatBox[i].feedback
                   /\ chatBox[i].id # last'.m => chatBox'[i] = chatBox[i]
       /\ last'.op \in {"refresh", "language"}
          => \A i \in 1..Len(chatBox') :
                /\ ~chatBox'[i].feedback
                /\ ~chatBox'[i].like /\ ~chatBox'[i].dislike
                /\ ~chatBox'[i].comment /\ chatBox'[i].boxes = <<>>]_vars

\* dislike was clicked on one answer while another answer stays liked with its
\* comment box open
C15_Witness ==
    /\ last.op = "dislike"
    /\ \E msg \in Clicked(last) : msg.dislike
    /\ \E i \in 1..Len(chatBox) :
          /\ chatBox[i].id # last.m
          /\ chatBox[i].feedback /\ chatBox[i].like /\ chatBox[i].boxes # <<>>

\* C16: a submission whose query is empty or only whitespace changes nothing,
\* with or without a client selected; the flow leaves idle only by a submission
\* with a query and a client; no request has an empty query or client id.
C16_EmptyQueryNoOp ==
    /\ [](\A r \in requests : HasWord(r.query) /\ r.client_id # "")
    /\ [][/\ (last'.op = "submit" /\ ~HasWord(userInput.value))
             => /\ UNCHANGED <<currentSessionId, currentLanguage, sessionIdSpan, chatBox,
                               userInput, sendButton, clientSelector, languageToggle,
                               page, requests, alertBox>>
                /\ alertBox = <<>>
                /\ AllEnabled
          /\ (requests = {} /\ requests' # {})
             => /\ last'.op = "submit"
                /\ HasWord(userInput.value)
                /\ clientSelector.value # ""]_vars

\* a query of a space and a line break was submitted with a client selected: the text is still
\* in the field, nothing was sent or shown
C16_Witness ==
    /\ last.op = "submit"
    /\ userInput.value = <<" ", "\n">>
    /\ clientSelector.value = "C123"
    /\ requests = {} /\ alertBox = <<>> /\ Len(chatBox) = 1
    /\ AllEnabled

\* C17: a request is sent with the trimmed query, the selected client id and
\* the session id and language current at its submission, and keeps them while
\* it is outstanding.
C17_Payload ==
    [][/\ \A r \in Issued :
             /\ r.query = Trimmed(userInput.value)
             /\ r.client_id = clientSelector.value
             /\ r.session_id = currentSessionId
             /\ r.language = currentLanguage
       /\ \A r \in requests : \A q \in requests' :
             q.thinking = r.thinking
             => /\ q.query = r.query
                /\ q.client_id = r.client_id
                /\ q.session_id = r.session_id
                /\ q.language = r.language]_vars

\* the language was changed while a request of the earlier session and
\* language is outstanding
C17_Witness ==
    /\ last.op = "language"
    /\ \E r \in requests :
          /\ r.session_id # currentSessionId
          /\ r.language # currentLanguage
          /\ r.query = <<"q">> /\ r.client_id = "C123"

\* C18: the three controls are all disabled while a request is outstanding and
\* all enabled while none is.
C18_ControlsFollowRequests ==
    /\ requests # {} => AllDisabled
    /\ requests = {} => AllEnabled

\* the language was changed while a request is outstanding, the controls
\* disabled
C18_Witness ==
    /\ last.op = "language"
    /\ requests # {}
    /\ AllDisabled

\* C19: the transcript holds at most as many placeholders as requests are
\* outstanding, so none while the flow is idle.
Placeholders == {i \in 1..Len(chatBox) : chatBox[i].className = "bot-message thinking"}
C19_PlaceholderBound == Cardinality(Placeholders) <= Cardinality(requests)

\* a request failed after a reset had cleared its placeholder: the welcome
\* message and the error, no placeholder
C19_Witness ==
    /\ last.op = "fetchRejects"
    /\ Len(chatBox) = 2
    /\ Placeholders = {}
    /\ requests = {}

\* C20: the response to a request of an earlier session is not rendered into
\* the transcript of the current session.
C20_StaleResponseDropped ==
    [][last'.op \in {"fetchRejects", "fetchResolves", "jsonRejects", "jsonResolves",
                     "jsonResolvesNull"}
        => \A r \in requests :
              (Finished(r) /\ r.session_id # currentSessionId) => chatBox' = chatBox]_vars

====
